---- MODULE Spec2Model ----
(***************************************************************************)
(* A model of ddsp/dags.py: DAGLayer, which strings modules together.      *)
(*                                                                         *)
(*   format_dag        the graph normalizer (a static method)              *)
(*   __init__          registry assembly: keyword modules + graph modules  *)
(*   run_dag           the executor: one pass over the node list           *)
(*   call              the entry point that delegates to run_dag           *)
(*                                                                         *)
(* Four specifications: SpecFormat (format_dag on a graph, and again on    *)
(* its own output), SpecInit (the constructor), Spec (a constructed layer  *)
(* and a run of run_dag, one action per node of the graph) and SpecCall    *)
(* (runs entered through call or run_dag, with or without the verbose      *)
(* argument, one after the other on the same layer).                       *)
(*                                                                         *)
(* Python values are modelled as tagged records, so that a string, a       *)
(* module instance, a list and a tuple are different values:               *)
(*   Str(s)                      a string                                  *)
(*   [tag |-> "mod", ...]        a tf.Module instance (id = its identity)  *)
(*   [tag |-> "seq", kind |-> "list"|"tuple", items |-> <<...>>]           *)
(*   [tag |-> "leaf", ...]       a tensor or another non-mapping value     *)
(*   [tag |-> "ref", id |-> n]   a reference to the dict object n          *)
(* A nested key 'inputs/x' is the sequence of its segments <<"inputs","x">>.*)
(* A Python dict whose key order is observable (kwargs, modules) is a      *)
(* record [keys |-> insertion order, val |-> key -> value].                *)
(***************************************************************************)
EXTENDS Integers, Sequences, FiniteSets, TLC

VARIABLES
    fdIn,            \* format_dag: the graph it is given
    fdOut,           \* format_dag: what it returned (NoValue before the call)
    fdOut2,          \* format_dag applied to the graph of fdOut
    fdMem,           \* format_dag: the list and tuple objects after the call
    ctorArgs,        \* DAGLayer(dag, **kwarg_modules): the arguments
    layer,           \* the DAGLayer object: [built, raised, attrs]
    inputs,          \* run_dag: the caller's input mapping (a dict object)
    verbose,         \* run_dag: the verbose argument
    outputs,         \* run_dag: the local `outputs`, key -> value
    heap,            \* dict objects by identity: id -> (key -> value)
    module_outputs,  \* run_dag: the local `module_outputs` (Unbound at first)
    pos,             \* run_dag: how many nodes the for loop has taken
    status,          \* "idle" | "running" | "returned" | "raised"
    err,             \* the exception that ended the run
    result,          \* what run_dag returned to its caller
    calls,           \* history: the module invocations, in order
    resolved,        \* history: nodes whose input keys were all resolved
    stored,          \* history: nodes whose outputs were stored, in order
    logs,            \* history: diagnostic records emitted
    entry,           \* the call that started the run: [via, inputs, verbose],
                     \* and left, the keys the run before it left in its namespace
    runs             \* how many runs were started on the layer

vars == <<fdIn, fdOut, fdOut2, fdMem, ctorArgs, layer, inputs, verbose, outputs,
          heap, module_outputs, pos, status, err, result, calls, resolved, stored,
          logs, entry, runs>>

fdVars == <<fdIn, fdOut, fdOut2, fdMem>>
ctorVars == <<ctorArgs, layer>>
runVars == <<inputs, verbose, outputs, heap, module_outputs, pos, status, err,
             result, calls, resolved, stored, logs, entry, runs>>

(***************************************************************************)
(* Bounds.                                                                 *)
(***************************************************************************)
MaxNodes == 3

(***************************************************************************)
(* Python values.                                                          *)
(***************************************************************************)
NoValue == [tag |-> "none"]
None == [tag |-> "None"]
Unbound == [tag |-> "unbound"]
Str(s) == [tag |-> "str", s |-> s]
Mod(id, name, caps) == [tag |-> "mod", id |-> id, name |-> name, caps |-> caps]
List(items) == [tag |-> "seq", kind |-> "list", items |-> items]
Tuple(items) == [tag |-> "seq", kind |-> "tuple", items |-> items]
Keys(ks) == [tag |-> "keys", ks |-> ks]
Leaf(src, p, shaped) == [tag |-> "leaf", src |-> src, p |-> p, shaped |-> shaped]
Ref(id) == [tag |-> "ref", id |-> id]

\* list(x): a new list with the items of the sequence object x.
list(x) == List(x.items)

\* An ordered dict, d[k] = v, d.update(e), d.pop(k).
EmptyDict == [keys |-> <<>>, val |-> <<>>]
HasKey(d, k) == \E n \in 1..Len(d.keys) : d.keys[n] = k
DictSet(d, k, v) ==
    IF HasKey(d, k)
    THEN [keys |-> d.keys, val |-> [d.val EXCEPT ![k] = v]]
    ELSE [keys |-> Append(d.keys, k),
          val |-> [x \in DOMAIN d.val \cup {k} |-> IF x = k THEN v ELSE d.val[x]]]
RECURSIVE DictUpdateFrom(_, _, _)
DictUpdateFrom(d, e, n) ==
    IF n > Len(e.keys) THEN d
    ELSE DictUpdateFrom(DictSet(d, e.keys[n], e.val[e.keys[n]]), e, n + 1)
DictUpdate(d, e) == DictUpdateFrom(d, e, 1)
SelectKeys(d, K) ==
    [keys |-> SelectSeq(d.keys, LAMBDA k : k \in K),
     val |-> [x \in DOMAIN d.val \cap K |-> d.val[x]]]
DictPop(d, k) == SelectKeys(d, DOMAIN d.val \ {k})
KeySet(d) == {d.keys[n] : n \in 1..Len(d.keys)}
Values(d) == {d.val[k] : k \in KeySet(d)}

\* The sequences over S of length k.
SeqsOfLen(S, k) == [1..k -> S]

(***************************************************************************)
(* Helper functions for DAGs.                                              *)
(***************************************************************************)
is_module(v) == v.tag = "mod"
\* filter_by_value(d, cond), sat being the values that satisfy cond.
filter_by_value(d, sat) ==
    SelectKeys(d, {k \in DOMAIN d.val : d.val[k] \in sat})

\* Duck typing: the capability of a value is the set of methods it has.
HasAttr(v, a) == v.tag = "mod" /\ a \in v.caps
is_loss(v) == HasAttr(v, "get_losses_dict")
is_processor(v) == HasAttr(v, "get_signal") /\ HasAttr(v, "get_controls")

(***************************************************************************)
(* DAGLayer.format_dag: remove modules from dag, replace with module names.*)
(***************************************************************************)
\* modules[module.name] = module
format_record_keep_first(modules, module) ==
    IF HasKey(modules, module.name) THEN modules
    ELSE DictSet(modules, module.name, module)
format_record(modules, module) ==
    DictSet(modules, module.name, module)

\* node = list(node); if is_module(node[0]): node[0] = module.name
format_node_keep_module(node) ==
    list(node)
format_node(node) ==
    LET n == list(node)
        module == n.items[1]
    IN IF is_module(module)
       THEN List([n.items EXCEPT ![1] = Str(module.name)])
       ELSE n

RECURSIVE format_loop(_, _, _)
format_loop(dag, modules, i) ==
    IF i > Len(dag.items) THEN [dag |-> dag, modules |-> modules]
    ELSE LET module == dag.items[i].items[1]
         IN format_loop(
                List([dag.items EXCEPT ![i] = format_node(dag.items[i])]),
                IF is_module(module) THEN format_record(modules, module)
                ELSE modules,
                i + 1)

format_dag(dag) == format_loop(list(dag), EmptyDict, 1)

(***************************************************************************)
(* format_dag again, as it acts on objects.  The graph it is given and the *)
(* nodes of that graph are list or tuple objects of the caller; list(x)    *)
(* makes a new list object, and x[i] = v changes the object that x names   *)
(* (a TypeError when that object is a tuple).                              *)
(***************************************************************************)
Obj(of, n) == [tag |-> "obj", of |-> of, n |-> n]

\* The caller's objects: the graph is object arg 0, its node i object arg i.
Objects(dag) ==
    [o \in {Obj("arg", i) : i \in 0..Len(dag.items)} |->
        IF o.n = 0
        THEN [kind |-> dag.kind,
              items |-> [i \in 1..Len(dag.items) |-> Obj("arg", i)]]
        ELSE [kind |-> dag.items[o.n].kind, items |-> dag.items[o.n].items]]

\* list(x), x the object at: the new list object new, with the items of x.
ListAlias(mem, at, new) == [mem |-> mem, at |-> at]
ListCopy(mem, at, new) ==
    [mem |-> [o \in DOMAIN mem \cup {new} |->
                 IF o = new THEN [kind |-> "list", items |-> mem[at].items]
                 ELSE mem[o]],
     at |-> new]

\* x[i] = v, x the object at.
SetItem(mem, at, i, v) ==
    IF mem[at].kind = "tuple" THEN [ok |-> FALSE, mem |-> mem]
    ELSE [ok |-> TRUE, mem |-> [mem EXCEPT ![at].items[i] = v]]

\* for i, node in enumerate(dag): node = list(node); ...; dag[i] = node
RECURSIVE format_mem_loop(_, _, _)
format_mem_loop(mem, dag, i) ==
    IF i > Len(mem[dag].items) THEN [ok |-> TRUE, mem |-> mem, dag |-> dag]
    ELSE LET node == ListCopy(mem, mem[dag].items[i], Obj("new", i))
             module == mem[mem[dag].items[i]].items[1]
             named == IF is_module(module)
                      THEN SetItem(node.mem, node.at, 1, Str(module.name))
                      ELSE [ok |-> TRUE, mem |-> node.mem]
         IN IF ~named.ok THEN [ok |-> FALSE, mem |-> named.mem, dag |-> dag]
            ELSE LET put == SetItem(named.mem, dag, i, node.at)
                 IN IF ~put.ok THEN [ok |-> FALSE, mem |-> put.mem, dag |-> dag]
                    ELSE format_mem_loop(put.mem, dag, i + 1)

\* dag = list(dag), the loop, return dag: the objects after the call and the
\* object returned (ok: no exception).
format_dag_mem(dag) ==
    LET copy == ListCopy(Objects(dag), Obj("arg", 0), Obj("new", 0))
    IN format_mem_loop(copy.mem, copy.at, 1)

\* The graph that a graph object holds, as a value.
GraphAt(mem, dag) ==
    [tag |-> "seq", kind |-> mem[dag].kind,
     items |-> [i \in 1..Len(mem[dag].items) |->
                   [tag |-> "seq", kind |-> mem[mem[dag].items[i]].kind,
                    items |-> mem[mem[dag].items[i]].items]]]

(***************************************************************************)
(* The graphs format_dag is checked on: lists and tuples of list and tuple *)
(* nodes, a node being [module, input_keys] or [module, input_keys,        *)
(* output_keys], its module a name or an inline instance.  Two of the      *)
(* instances share the name "a".                                           *)
(***************************************************************************)
NetCaps == {}
ProcCaps == {"get_signal", "get_controls"}
LossCaps == {"get_losses_dict"}

InlineModules == {Mod(1, "a", NetCaps), Mod(2, "a", ProcCaps), Mod(3, "b", LossCaps)}
FdRefs == {Str("a")} \cup InlineModules
FdNodeItems ==
    {<<r, Keys(<< <<"inputs", "x">> >>)>> : r \in FdRefs}
    \cup {<<r, Keys(<< <<"inputs", "x">> >>), Keys(<<"y">>)>> : r \in FdRefs}
FdNodes == {List(it) : it \in FdNodeItems} \cup {Tuple(it) : it \in FdNodeItems}

IdleRun ==
    /\ inputs = NoValue
    /\ verbose = FALSE
    /\ outputs = <<>>
    /\ heap = <<>>
    /\ module_outputs = Unbound
    /\ pos = 0
    /\ status = "idle"
    /\ err = NoValue
    /\ result = NoValue
    /\ calls = <<>>
    /\ resolved = {}
    /\ stored = <<>>
    /\ logs = 0
    /\ entry = NoValue
    /\ runs = 0

NoLayer == [built |-> FALSE, raised |-> FALSE, attrs |-> <<>>]

InitFormat ==
    /\ \E k \in 0..MaxNodes : \E s \in SeqsOfLen(FdNodes, k) :
           fdIn \in {List(s), Tuple(s)}
    /\ fdOut = NoValue
    /\ fdOut2 = NoValue
    /\ fdMem = NoValue
    /\ ctorArgs = NoValue
    /\ layer = NoLayer
    /\ IdleRun

\* dag, modules = DAGLayer.format_dag(dag)
FormatDag ==
    /\ fdOut = NoValue
    /\ fdOut' = format_dag(fdIn)
    /\ fdMem' = format_dag_mem(fdIn)
    /\ UNCHANGED <<fdIn, fdOut2, ctorVars, runVars>>

\* The same call on the graph that the first call returned.
Reformat ==
    /\ fdOut # NoValue
    /\ fdOut2 = NoValue
    /\ fdOut2' = format_dag(fdOut.dag)
    /\ UNCHANGED <<fdIn, fdOut, fdMem, ctorVars, runVars>>

NextFormat == FormatDag \/ Reformat

SpecFormat == InitFormat /\ [][NextFormat]_vars

(***************************************************************************)
(* Properties of format_dag.                                               *)
(***************************************************************************)
FdInline(dag) ==
    {n \in 1..Len(dag.items) : is_module(dag.items[n].items[1])}
FdPure(dag) == FdInline(dag) = {}
FdListOfLists(dag) ==
    /\ dag.kind = "list"
    /\ \A n \in 1..Len(dag.items) : dag.items[n].kind = "list"
\* The name a node refers to: the string, or the inline instance's own name.
FdName(node) ==
    IF is_module(node.items[1]) THEN node.items[1].name ELSE node.items[1].s
\* Node n of the output is node n of the input with a name as first element.
FdNodeKept(in, out) ==
    /\ Len(out.items) = Len(in.items)
    /\ out.items[1] = Str(FdName(in))
    /\ \A e \in 2..Len(in.items) : out.items[e] = in.items[e]
FdShapeKept(in, out) ==
    /\ Len(out.items) = Len(in.items)
    /\ \A n \in 1..Len(in.items) : FdNodeKept(in.items[n], out.items[n])
\* The last inline instance of the graph that has this name.
FdLastNamed(dag, name) ==
    LET at == {n \in FdInline(dag) : dag.items[n].items[1].name = name}
        last == CHOOSE n \in at : \A m \in at : m <= n
    IN dag.items[last].items[1]

\* C7 (as amended): format_dag returns a graph with the same number of nodes
\* in the same order, each node's input and output keys unchanged and its
\* first element a string; the extracted mapping has one entry per name of an
\* inline instance, keyed by that name, holding the LAST inline instance of
\* that name (an earlier instance of the same name is not kept).
C7_NormalizerShape ==
    fdOut # NoValue =>
        /\ FdShapeKept(fdIn, fdOut.dag)
        /\ KeySet(fdOut.modules) =
               {fdIn.items[n].items[1].name : n \in FdInline(fdIn)}
        /\ Cardinality(KeySet(fdOut.modules)) = Len(fdOut.modules.keys)
        /\ \A k \in KeySet(fdOut.modules) :
               fdOut.modules.val[k] = FdLastNamed(fdIn, k)

\* C7 (original): ... and the extracted-module mapping contains exactly the
\* module instances that were embedded inline, each keyed by its own name.
C7_Original ==
    fdOut # NoValue =>
        /\ FdShapeKept(fdIn, fdOut.dag)
        /\ Values(fdOut.modules) =
               {fdIn.items[n].items[1] : n \in FdInline(fdIn)}
        /\ \A k \in KeySet(fdOut.modules) : fdOut.modules.val[k].name = k

\* C7 witness: a graph with two inline instances of one name was normalized.
C7_Witness ==
    /\ fdOut # NoValue
    /\ \E n, m \in FdInline(fdIn) :
           /\ n < m
           /\ fdIn.items[n].items[1] # fdIn.items[m].items[1]
           /\ fdIn.items[n].items[1].name = fdIn.items[m].items[1].name
    /\ \E n \in 1..Len(fdIn.items) : Len(fdIn.items[n].items) = 3

\* C8 (as amended): format_dag of a graph whose module references are all
\* names returns the same nodes in the same order as a list of list nodes
\* (equal to its input when the input is a list of lists; a tuple graph or
\* tuple node comes back as a list) and an empty extracted mapping; and
\* format_dag of the graph it returned returns that same graph, equal, and
\* no extracted modules.
C8_Idempotence ==
    /\ (fdOut # NoValue /\ FdPure(fdIn)) =>
           /\ FdShapeKept(fdIn, fdOut.dag)
           /\ FdListOfLists(fdOut.dag)
           /\ FdListOfLists(fdIn) => fdOut.dag = fdIn
           /\ fdOut.modules = EmptyDict
    /\ fdOut2 # NoValue =>
           /\ fdOut2.dag = fdOut.dag
           /\ fdOut2.modules = EmptyDict

\* C8 (original): format_dag of a graph whose module references are all names
\* returns a graph equal to its input and an empty extracted mapping; hence
\* format_dag of its own output returns that same graph and nothing extracted.
C8_Original ==
    /\ (fdOut # NoValue /\ FdPure(fdIn)) =>
           /\ fdOut.dag = fdIn
           /\ fdOut.modules = EmptyDict
    /\ fdOut2 # NoValue =>
           /\ fdOut2.dag = fdOut.dag
           /\ fdOut2.modules = EmptyDict

\* C8 witness: a pure graph with a tuple node went through format_dag twice.
C8_Witness ==
    /\ fdOut2 # NoValue
    /\ FdPure(fdIn)
    /\ Len(fdIn.items) >= 2
    /\ \E n \in 1..Len(fdIn.items) : fdIn.items[n].kind = "tuple"

\* C12: format_dag accepts every graph, of lists or tuples, without an
\* exception, and after the call the graph object it was given and every
\* node object of it hold what they held before (the inline instances
\* included); the graph it returns and the nodes of that graph are new
\* objects, holding the normalized graph.
C12_NormalizerPurity ==
    fdOut # NoValue =>
        \A given \in {Objects(fdIn)} :
            /\ fdMem.ok
            /\ \A o \in DOMAIN given : fdMem.mem[o] = given[o]
            /\ \A i \in FdInline(fdIn) :
                   fdMem.mem[Obj("arg", i)].items[1] = fdIn.items[i].items[1]
            /\ fdMem.dag \notin DOMAIN given
            /\ \A i \in 1..Len(fdIn.items) :
                   fdMem.mem[fdMem.dag].items[i] \notin DOMAIN given
            /\ GraphAt(fdMem.mem, fdMem.dag) = fdOut.dag

\* C12 witness: format_dag has returned for a tuple graph that holds an
\* inline instance in a tuple node and another in a list node.
C12_Witness ==
    /\ fdOut # NoValue
    /\ fdIn.kind = "tuple"
    /\ \E i, j \in FdInline(fdIn) :
           /\ fdIn.items[i].kind = "tuple"
           /\ fdIn.items[j].kind = "list"

(***************************************************************************)
(* split_keras_kwargs: strip keras specific kwargs.                        *)
(***************************************************************************)
KerasKeys == <<"training", "mask", "name">>
DictGet(d, k) == IF HasKey(d, k) THEN d.val[k] ELSE None

RECURSIVE split_loop(_, _, _)
split_loop(keras_kwargs, kwargs, n) ==
    IF n > Len(KerasKeys) THEN [keras_kwargs |-> keras_kwargs, kwargs |-> kwargs]
    ELSE LET key == KerasKeys[n]
         IN IF DictGet(kwargs, key) # None
            THEN split_loop(DictSet(keras_kwargs, key, kwargs.val[key]),
                            DictPop(kwargs, key), n + 1)
            ELSE split_loop(keras_kwargs, kwargs, n + 1)

split_keras_kwargs(kwargs) == split_loop(EmptyDict, kwargs, 1)

(***************************************************************************)
(* DAGLayer.__init__.                                                      *)
(*                                                                         *)
(* The attributes of the layer are a function name -> value.  Only the     *)
(* attributes that __init__ sets are modelled (dag, module_names and one   *)
(* per module); what tfkl.Layer itself defines is outside this file.       *)
(***************************************************************************)
\* super().__init__(**keras_kwargs) is Keras code: Layer.__init__ takes `name`
\* and has no `training` or `mask` parameter, which it rejects (TypeError).
KerasInitOutcome(keras_kwargs) ==
    IF HasKey(keras_kwargs, "training") \/ HasKey(keras_kwargs, "mask")
    THEN "raise"
    ELSE "ok"

\* setattr(self, name, value)
SetAttr(attrs, name, value) ==
    [x \in DOMAIN attrs \cup {name} |-> IF x = name THEN value ELSE attrs[x]]

\* for module_name, module in modules.items(): setattr(self, module_name, module)
RECURSIVE setattr_loop(_, _, _)
setattr_loop(attrs, modules, n) ==
    IF n > Len(modules.keys) THEN attrs
    ELSE setattr_loop(SetAttr(attrs, modules.keys[n], modules.val[modules.keys[n]]),
                      modules, n + 1)

\* modules = filter_by_value(kwarg_modules, is_module);
\* modules.update(dag_modules)
merge_modules(kwarg_modules, dag_modules) ==
    DictUpdate(filter_by_value(kwarg_modules,
                               {v \in Values(kwarg_modules) : is_module(v)}),
               dag_modules)

StrList(names) == List([n \in 1..Len(names) |-> Str(names[n])])

DAGLayer_init(dag, kwarg_modules) ==
    LET sp == split_keras_kwargs(kwarg_modules)
        fd == format_dag(dag)
        modules == merge_modules(sp.kwargs, fd.modules)
        a1 == SetAttr(<<>>, "dag", fd.dag)
        a2 == SetAttr(a1, "module_names", StrList(modules.keys))
    IN IF KerasInitOutcome(sp.keras_kwargs) = "raise"
       THEN [built |-> FALSE, raised |-> TRUE, attrs |-> <<>>]
       ELSE [built |-> TRUE, raised |-> FALSE,
             attrs |-> setattr_loop(a2, modules, 1)]

(***************************************************************************)
(* The constructor calls that are checked: a graph of at most MaxNodes     *)
(* nodes with names and inline instances, and up to two keyword arguments. *)
(***************************************************************************)
CtorRefs ==
    {Str("a"), Mod(1, "a", NetCaps), Mod(2, "a", ProcCaps), Mod(3, "b", LossCaps),
     Mod(8, "dag", NetCaps), Mod(9, "module_names", NetCaps)}
CtorNodes ==
    {List(<<r, Keys(<< <<"inputs", "x">> >>), Keys(<<"y">>)>>) : r \in CtorRefs}

KwargPairs ==
    {<<"a", Mod(4, "enc", NetCaps)>>, <<"b", Mod(5, "b", ProcCaps)>>,
     <<"a", Str("text")>>, <<"name", Str("layer")>>, <<"name", None>>,
     <<"mask", Mod(7, "m", NetCaps)>>, <<"training", Str("True")>>}
KwargsOf(pairs) ==
    [keys |-> [n \in 1..Len(pairs) |-> pairs[n][1]],
     val |-> [k \in {pairs[n][1] : n \in 1..Len(pairs)} |->
                 (CHOOSE q \in {pairs[n] : n \in 1..Len(pairs)} : q[1] = k)[2]]]
MaxKwargs == 2
CtorKwargs ==
    UNION {{KwargsOf(ps) : ps \in {s \in SeqsOfLen(KwargPairs, k) :
                \A n, m \in 1..k : n # m => s[n][1] # s[m][1]}} : k \in 0..MaxKwargs}

InitCtor ==
    /\ fdIn = NoValue
    /\ fdOut = NoValue
    /\ fdOut2 = NoValue
    /\ fdMem = NoValue
    /\ \E k \in 0..MaxNodes : \E s \in SeqsOfLen(CtorNodes, k) :
           ctorArgs \in [dag : {List(s)}, kwargs : CtorKwargs]
    /\ layer = NoLayer
    /\ IdleRun

\* dag_layer = DAGLayer(dag, **kwarg_modules)
Construct ==
    /\ ~layer.built
    /\ ~layer.raised
    /\ layer' = DAGLayer_init(ctorArgs.dag, ctorArgs.kwargs)
    /\ UNCHANGED <<fdVars, ctorArgs, runVars>>

NextCtor == Construct

SpecInit == InitCtor /\ [][NextCtor]_vars

(***************************************************************************)
(* Properties of the constructor.                                          *)
(***************************************************************************)
\* The keyword arguments that are modules, and the names of the graph's
\* inline instances.
KwModules(kwargs) == {k \in KeySet(kwargs) : is_module(kwargs.val[k])}
GraphNames(dag) == {dag.items[n].items[1].name : n \in FdInline(dag)}
IsNameList(v, names) ==
    /\ v.tag = "seq"
    /\ Len(v.items) = Cardinality(names)
    /\ {v.items[n] : n \in 1..Len(v.items)} = {Str(k) : k \in names}

\* C9 (the claim): after construction the registry (module_names and the
\* attribute of each name) is the union of the keyword modules and the
\* graph-extracted modules; a name both supply is bound to the graph's module
\* and appears once in module_names.
C9_RegistryIsUnion ==
    layer.built =>
        LET kw == KwModules(ctorArgs.kwargs)
            gr == GraphNames(ctorArgs.dag)
        IN /\ IsNameList(layer.attrs["module_names"], kw \cup gr)
           /\ \A k \in kw \cup gr :
                  /\ k \in DOMAIN layer.attrs
                  /\ layer.attrs[k] = IF k \in gr THEN FdLastNamed(ctorArgs.dag, k)
                                      ELSE ctorArgs.kwargs.val[k]

(***************************************************************************)
(* ddsp.core, as run_dag uses it.                                          *)
(***************************************************************************)
IsMapping(v, hp) == v.tag = "ref" /\ v.id \in DOMAIN hp

\* core.nested_lookup(key, outputs): value = outputs; for each segment of
\* the key, value = value[segment]; a missing segment is a lookup error.
RECURSIVE lookup_from(_, _, _, _)
lookup_from(value, key, n, hp) ==
    IF n > Len(key) THEN [ok |-> TRUE, v |-> value]
    ELSE IF ~IsMapping(value, hp) THEN [ok |-> FALSE, v |-> None]
    ELSE IF key[n] \notin DOMAIN hp[value.id] THEN [ok |-> FALSE, v |-> None]
    ELSE lookup_from(hp[value.id][key[n]], key, n + 1, hp)
nested_lookup(key, outs, hp) ==
    IF key[1] \notin DOMAIN outs THEN [ok |-> FALSE, v |-> None]
    ELSE lookup_from(outs[key[1]], key, 2, hp)

\* core.to_dict(x, keys): a value that is not a dict becomes one, labelled by
\* the keys in order (positional labels when there are no keys); as many
\* labels as values, or the call fails.
PositionalKeys == <<"0", "1">>
RawValues(raw) == IF raw.tag = "tuple" THEN raw.items ELSE <<raw>>
to_dict(raw, output_keys) ==
    LET values == RawValues(raw)
        labels == IF output_keys = None
                  THEN SubSeq(PositionalKeys, 1, Len(values))
                  ELSE output_keys.ks
    IN IF Len(labels) # Len(values) THEN [ok |-> FALSE, d |-> <<>>]
       ELSE [ok |-> TRUE,
             d |-> [l \in {labels[n] : n \in 1..Len(labels)} |->
                       values[CHOOSE n \in 1..Len(labels) : labels[n] = l]]]

(***************************************************************************)
(* DAGLayer.run_dag.                                                       *)
(***************************************************************************)
InputsId == 0

\* def run_dag(self, inputs, verbose: bool = True, **kwargs): the value of
\* the parameter verbose for the argument of the call (no gin binding of
\* verbose is in effect).  The argument is Passed(b), or NotPassed.
NotPassed == {}
Passed(b) == {b}
VerboseDefault == TRUE
BindVerbose(arg) ==
    IF arg = NotPassed THEN VerboseDefault ELSE CHOOSE b \in arg : TRUE

\* outputs = {'inputs': inputs}; outputs.update(inputs)
InitOutputsCarry(inp) ==
    [k \in DOMAIN outputs \cup {"inputs"} \cup DOMAIN inp |->
        IF k \in DOMAIN inp THEN inp[k]
        ELSE IF k = "inputs" THEN Ref(InputsId)
        ELSE outputs[k]]
InitOutputs(inp) ==
    [k \in {"inputs"} \cup DOMAIN inp |->
        IF k \in DOMAIN inp THEN inp[k] ELSE Ref(InputsId)]

\* for node in self.dag: the nodes, in the order the loop takes them.
IterOrderReversed(items) == [n \in 1..Len(items) |-> Len(items) + 1 - n]
IterOrder(items) == [n \in 1..Len(items) |-> n]

\* inputs = [core.nested_lookup(key, outputs) for key in input_keys]
ResolveInputsLenient(input_keys, outs, hp) ==
    LET Found(key) == nested_lookup(key, outs, hp).ok
        found == SelectSeq(input_keys, Found)
    IN [ok |-> TRUE,
        vals |-> [n \in 1..Len(found) |-> nested_lookup(found[n], outs, hp).v]]
ResolveInputs(input_keys, outs, hp) ==
    [ok |-> \A n \in 1..Len(input_keys) : nested_lookup(input_keys[n], outs, hp).ok,
     vals |-> [n \in 1..Len(input_keys) |-> nested_lookup(input_keys[n], outs, hp).v]]

\* shape = lambda d: tf.nest.map_structure(lambda x: list(x.shape), d)
\* succeeds when every leaf of the structure has a shape.
HasShape(v, hp) ==
    IF v.tag = "ref" THEN \A k \in DOMAIN hp[v.id] : hp[v.id][k].shaped
    ELSE v.shaped
ShapeOk(vals, hp) == \A n \in 1..Len(vals) : HasShape(vals[n], hp)

\* if is_processor(module): ... elif is_loss(module): ... else: ...
ConventionLossFirst(module) ==
    IF is_loss(module) THEN "loss"
    ELSE IF is_processor(module) THEN "processor"
    ELSE "default"
Convention(module) ==
    IF is_processor(module) THEN "processor"
    ELSE IF is_loss(module) THEN "loss"
    ELSE "default"

\* output_keys = node[2] if len(node) > 2 else None
OutputKeysOf(node) == IF Len(node.items) > 2 THEN node.items[3] ELSE None

\* if not isinstance(module_outputs, dict):
\*   module_outputs = core.to_dict(module_outputs, output_keys)
WrapOutputsAlways(raw, output_keys) == to_dict(raw, output_keys)
WrapOutputs(raw, output_keys) ==
    IF raw.tag = "dict" THEN [ok |-> TRUE, d |-> raw.d]
    ELSE to_dict(raw, output_keys)

\* outputs[module_key] = module_outputs
StoreOutputsKeepFirst(outs, module_key, value) ==
    IF module_key \in DOMAIN outs THEN outs
    ELSE [x \in DOMAIN outs \cup {module_key} |->
             IF x = module_key THEN value ELSE outs[x]]
StoreOutputs(outs, module_key, value) ==
    [x \in DOMAIN outs \cup {module_key} |->
        IF x = module_key THEN value ELSE outs[x]]

\* outputs['out'] = module_outputs: the same object, not a copy.
AliasOutCopy(outs, hp, value) ==
    LET copy == Cardinality(DOMAIN hp) + 100
    IN [outputs |-> StoreOutputs(outs, "out", Ref(copy)),
        heap |-> [x \in DOMAIN hp \cup {copy} |->
                     IF x = copy THEN hp[value.id] ELSE hp[x]]]
AliasOut(outs, hp, value) ==
    [outputs |-> StoreOutputs(outs, "out", value), heap |-> hp]

\* What a module may return: a tensor, a value without a shape, a tuple of
\* two tensors, a dict.  The values of node k's module are new values.
RawResults(k) ==
    {Leaf(k, 1, TRUE), Leaf(k, 1, FALSE),
     [tag |-> "tuple", items |-> <<Leaf(k, 1, TRUE), Leaf(k, 2, TRUE)>>],
     [tag |-> "dict", d |-> [y |-> Leaf(k, 1, TRUE)]]}

\* The locals and the history of the run, as one record.
RunState ==
    [outputs |-> outputs, heap |-> heap, module_outputs |-> module_outputs,
     pos |-> pos, status |-> status, err |-> err, calls |-> calls,
     resolved |-> resolved, stored |-> stored, logs |-> logs]
Raise(st, kind, k, at) ==
    [st EXCEPT !.status = "raised", !.err = [kind |-> kind, node |-> k, at |-> at]]

\* One pass of the loop body, for node k, whose module returns raw, with the
\* run's verbose argument vb.
NodeStep(k, raw, vb) ==
    LET node == layer.attrs["dag"].items[k]
        module_key == node.items[1].s
        input_keys == node.items[2].ks
        found == module_key \in DOMAIN layer.attrs
        module == IF found THEN layer.attrs[module_key] ELSE None
        output_keys == OutputKeysOf(node)
        ins == ResolveInputs(input_keys, outputs, heap)
        conv == Convention(module)
        call == [node |-> k, key |-> module_key, module |-> module, conv |-> conv,
                 args |-> ins.vals, raw |-> raw, nstored |-> Len(stored)]
        wrapped == WrapOutputs(raw, output_keys)
        st0 == RunState
        st1 == [st0 EXCEPT !.resolved = @ \cup {k}]
        st2 == [st1 EXCEPT !.logs = IF vb THEN @ + 1 ELSE @]
        st3 == [st2 EXCEPT !.calls = Append(@, call)]
        hp == [x \in DOMAIN heap \cup {k} |-> IF x = k THEN wrapped.d ELSE heap[x]]
        st4 == [st3 EXCEPT !.logs = IF vb THEN @ + 1 ELSE @]
    IN IF ~found THEN Raise(st0, "AttributeError", k, "getattr")
       ELSE IF ~ins.ok THEN Raise(st0, "KeyError", k, "lookup")
       ELSE IF vb /\ ~ShapeOk(ins.vals, heap) THEN Raise(st1, "AttributeError", k, "log")
       ELSE IF module.tag # "mod" THEN Raise(st2, "TypeError", k, "call")
       ELSE IF ~wrapped.ok THEN Raise(st3, "ValueError", k, "to_dict")
       ELSE IF vb /\ ~HasShape(Ref(k), hp) THEN Raise(st3, "AttributeError", k, "log")
       ELSE [st4 EXCEPT !.outputs = StoreOutputs(@, module_key, Ref(k)),
                        !.heap = hp,
                        !.module_outputs = Ref(k),
                        !.stored = Append(@, k)]

(***************************************************************************)
(* The runs that are checked.  The layer is built from a graph of at most  *)
(* MaxNodes nodes that name their modules, with modules a and b given as   *)
(* keywords; a has any of the capability sets.  The names c (no attribute  *)
(* of the layer) and dag (an attribute, but no module) are not registered. *)
(***************************************************************************)
CapSets ==
    {{}, {"get_signal"}, {"get_losses_dict"}, {"get_signal", "get_controls"},
     {"get_signal", "get_losses_dict"},
     {"get_signal", "get_controls", "get_losses_dict"}}
RunNodes ==
    {List(<<Str("a"), Keys(<< <<"inputs", "x">> >>), Keys(<<"y">>)>>),
     List(<<Str("b"), Keys(<< <<"a", "y">> >>), Keys(<<"y">>)>>),
     List(<<Str("a"), Keys(<< <<"x">>, <<"b", "y">> >>)>>),
     List(<<Str("b"), Keys(<< <<"inputs", "x">>, <<"a", "y">> >>), Keys(<<"y", "z">>)>>),
     List(<<Str("dag"), Keys(<< <<"inputs", "x">> >>), Keys(<<"y">>)>>),
     List(<<Str("c"), Keys(<< <<"inputs", "x">> >>), Keys(<<"y">>)>>)}
RunKwargs ==
    {KwargsOf(<< <<"a", Mod(1, "a", caps)>>, <<"b", Mod(2, "b", LossCaps)>> >>) :
        caps \in CapSets}
InputMappings ==
    {[x |-> Leaf(InputsId, 1, TRUE)], [x |-> Leaf(InputsId, 1, FALSE)]}

Init ==
    /\ fdIn = NoValue
    /\ fdOut = NoValue
    /\ fdOut2 = NoValue
    /\ fdMem = NoValue
    /\ \E k \in 0..MaxNodes : \E s \in SeqsOfLen(RunNodes, k) :
           ctorArgs \in [dag : {List(s)}, kwargs : RunKwargs]
    /\ layer = DAGLayer_init(ctorArgs.dag, ctorArgs.kwargs)
    /\ IdleRun

\* dag_layer.run_dag(inputs, verbose): up to the head of the loop.
StartRun ==
    /\ layer.built
    /\ status = "idle"
    /\ \E inp \in InputMappings, vb \in BOOLEAN :
           /\ entry' = [via |-> "run_dag", inputs |-> inp, verbose |-> Passed(vb),
                       left |-> {}]
           /\ inputs' = Ref(InputsId)
           /\ verbose' = BindVerbose(Passed(vb))
           /\ heap' = [x \in {InputsId} |-> inp]
           /\ outputs' = InitOutputs(inp)
    /\ IF layer.attrs["dag"].tag = "seq"
       THEN status' = "running" /\ err' = err
       ELSE status' = "raised" /\
            err' = [kind |-> "TypeError", node |-> 0, at |-> "iter"]
    /\ runs' = runs + 1
    /\ UNCHANGED <<fdVars, ctorVars, module_outputs, pos, result, calls,
                   resolved, stored, logs>>

\* One node of the graph: lines 156-190.
RunNode ==
    /\ status = "running"
    /\ pos < Len(layer.attrs["dag"].items)
    /\ \E k \in {IterOrder(layer.attrs["dag"].items)[pos + 1]} :
       \E raw \in RawResults(k) :
       \E st \in {NodeStep(k, raw, verbose)} :
           /\ outputs' = st.outputs
           /\ heap' = st.heap
           /\ module_outputs' = st.module_outputs
           /\ pos' = pos + 1
           /\ status' = st.status
           /\ err' = st.err
           /\ calls' = st.calls
           /\ resolved' = st.resolved
           /\ stored' = st.stored
           /\ logs' = st.logs
    /\ UNCHANGED <<fdVars, ctorVars, inputs, verbose, result, entry, runs>>

\* After the loop: outputs['out'] = module_outputs; return outputs.
FinishRunSkipAlias ==
    /\ status = "running"
    /\ pos = Len(layer.attrs["dag"].items)
    /\ LET al == IF module_outputs = Unbound
                 THEN [outputs |-> outputs, heap |-> heap]
                 ELSE AliasOut(outputs, heap, module_outputs)
       IN /\ outputs' = al.outputs
          /\ heap' = al.heap
          /\ result' = al.outputs
          /\ status' = "returned"
          /\ err' = err
    /\ UNCHANGED <<fdVars, ctorVars, inputs, verbose, module_outputs, pos, calls,
                   resolved, stored, logs, entry, runs>>
FinishRun ==
    /\ status = "running"
    /\ pos = Len(layer.attrs["dag"].items)
    /\ IF module_outputs = Unbound
       THEN /\ status' = "raised"
            /\ err' = [kind |-> "UnboundLocalError", node |-> 0, at |-> "alias"]
            /\ UNCHANGED <<outputs, heap, result>>
       ELSE LET al == AliasOut(outputs, heap, module_outputs)
            IN /\ outputs' = al.outputs
               /\ heap' = al.heap
               /\ result' = al.outputs
               /\ status' = "returned"
               /\ err' = err
    /\ UNCHANGED <<fdVars, ctorVars, inputs, verbose, module_outputs, pos, calls,
                   resolved, stored, logs, entry, runs>>

Next == StartRun \/ RunNode \/ FinishRun

Spec == Init /\ [][Next]_vars

(***************************************************************************)
(* Runs entered through call and through run_dag, with or without the      *)
(* verbose argument, one after the other on the same layer.  The layer has *)
(* plain modules a, x and inputs: x is also the key of an input, and       *)
(* inputs the key under which run_dag keeps the input mapping.  An input   *)
(* mapping may itself have a key inputs.                                   *)
(***************************************************************************)
MaxRuns == 2

CallNodes ==
    {List(<<Str("a"), Keys(<< <<"inputs", "x">> >>), Keys(<<"y">>)>>),
     List(<<Str("x"), Keys(<< <<"a", "y">> >>), Keys(<<"y">>)>>),
     List(<<Str("inputs"), Keys(<< <<"x">> >>), Keys(<<"y">>)>>)}
CallKwargs ==
    {KwargsOf(<< <<"a", Mod(1, "a", NetCaps)>>, <<"x", Mod(2, "x", NetCaps)>>,
                 <<"inputs", Mod(3, "inputs", NetCaps)>> >>)}
CallInputs ==
    {[x |-> Leaf(InputsId, 1, TRUE)], [x |-> Leaf(InputsId, 1, FALSE)],
     [x |-> Leaf(InputsId, 1, TRUE), inputs |-> Leaf(InputsId, 2, TRUE)]}
VerboseArgs == {NotPassed, Passed(TRUE), Passed(FALSE)}

InitCall ==
    /\ fdIn = NoValue
    /\ fdOut = NoValue
    /\ fdOut2 = NoValue
    /\ fdMem = NoValue
    /\ \E k \in 0..MaxNodes : \E s \in SeqsOfLen(CallNodes, k) :
           ctorArgs \in [dag : {List(s)}, kwargs : CallKwargs]
    /\ layer = DAGLayer_init(ctorArgs.dag, ctorArgs.kwargs)
    /\ IdleRun

\* run_dag(inputs, verbose), a new call: new locals, and lines 149-156 up to
\* the head of the loop.  via names the method that the caller called.
Enter(via, inp, varg) ==
    /\ layer.built
    /\ status \in {"idle", "returned", "raised"}
    /\ runs < MaxRuns
    /\ runs' = runs + 1
    /\ entry' = [via |-> via, inputs |-> inp, verbose |-> varg,
                 left |-> IF status = "idle" THEN {} ELSE DOMAIN outputs]
    /\ inputs' = Ref(InputsId)
    /\ verbose' = BindVerbose(varg)
    /\ heap' = [x \in {InputsId} |-> inp]
    /\ outputs' = InitOutputs(inp)
    /\ module_outputs' = Unbound
    /\ pos' = 0
    /\ result' = NoValue
    /\ calls' = <<>>
    /\ resolved' = {}
    /\ stored' = <<>>
    /\ logs' = 0
    /\ IF layer.attrs["dag"].tag = "seq"
       THEN status' = "running" /\ err' = NoValue
       ELSE status' = "raised" /\
            err' = [kind |-> "TypeError", node |-> 0, at |-> "iter"]
    /\ UNCHANGED <<fdVars, ctorVars>>

\* dag_layer.call(inputs, **kwargs): return self.run_dag(inputs, **kwargs);
\* verbose reaches run_dag when it is among the keyword arguments.
Call == \E inp \in CallInputs, varg \in VerboseArgs : Enter("call", inp, varg)

\* dag_layer.run_dag(inputs) and dag_layer.run_dag(inputs, verbose=...).
RunDag == \E inp \in CallInputs, varg \in VerboseArgs : Enter("run_dag", inp, varg)

NextCall == Call \/ RunDag \/ RunNode \/ FinishRun

SpecCall == InitCall /\ [][NextCall]_vars

(***************************************************************************)
(* Properties of run_dag.                                                  *)
(***************************************************************************)
Dag == layer.attrs["dag"].items
NodeName(k) == Dag[k].items[1].s
NodeKeys(k) == Dag[k].items[2].ks
NodeOutputKeys(k) == IF Len(Dag[k].items) > 2 THEN Dag[k].items[3].ks ELSE <<>>
RegisteredNames ==
    {layer.attrs["module_names"].items[n].s :
        n \in 1..Len(layer.attrs["module_names"].items)}
KeyMissing(k) ==
    \E q \in 1..Len(NodeKeys(k)) : ~nested_lookup(NodeKeys(k)[q], outputs, heap).ok

\* C1: run_dag invokes the nodes' modules in exactly the order of the node
\* list, one invocation per node: the j-th invocation is node j's module,
\* made when the outputs of nodes 1..j-1 (and only those) are stored, whatever
\* keys the nodes reference; a run that returns has invoked every node.
C1_OrderPreservation ==
    /\ \A j \in 1..Len(calls) :
           /\ calls[j].node = j
           /\ calls[j].key = NodeName(j)
           /\ calls[j].module = layer.attrs[NodeName(j)]
           /\ calls[j].nstored = j - 1
    /\ \A j \in 1..Len(stored) : stored[j] = j
    /\ Len(stored) <= Len(calls)
    /\ Len(calls) <= pos
    /\ status = "returned" =>
           /\ Len(calls) = Len(Dag)
           /\ Len(stored) = Len(Dag)

\* C1 witness: a run over several nodes returned, its second node reading
\* nothing that its first node produced.
C1_Witness ==
    /\ status = "returned"
    /\ Len(calls) >= 2
    /\ \A q \in 1..Len(NodeKeys(2)) : NodeKeys(2)[q][1] # NodeName(1)

\* The mapping that a raw result is stored as: itself when it is a dict, else
\* its values under the node's output keys (positional labels without keys).
ExpectedMapping(raw, k) ==
    IF raw.tag = "dict" THEN raw.d
    ELSE LET values == IF raw.tag = "tuple" THEN raw.items ELSE <<raw>>
             labels == IF Len(Dag[k].items) > 2 THEN NodeOutputKeys(k)
                       ELSE SubSeq(PositionalKeys, 1, Len(values))
         IN [l \in {labels[n] : n \in 1..Len(labels)} |->
                values[CHOOSE n \in 1..Len(labels) : labels[n] = l]]
\* What a key under node n's name addresses in node n's output.
Under(n, key) == IF Len(key) = 1 THEN Ref(n) ELSE heap[n][key[2]]
Shadowed(n, j) == \E m \in (n + 1)..(j - 1) : NodeName(m) = NodeName(n)
StoredRight ==
    stored # <<>> =>
        LET n == stored[Len(stored)]
        IN /\ outputs[NodeName(n)] = Ref(n)
           /\ heap[n] = ExpectedMapping(calls[n].raw, n)

\* C2 (as amended): right after node n is executed output_namespace[n.name]
\* is the (possibly wrapped) return value of n's module, and it is what every
\* subsequent node obtains when it resolves a key under n.name, until a later
\* node of the same name is executed (which replaces it).
C2_NamespaceAccumulation ==
    /\ StoredRight
    /\ \A j \in 1..Len(calls) : \A q \in 1..Len(NodeKeys(j)) : \A n \in 1..(j - 1) :
           (NodeName(n) = NodeKeys(j)[q][1] /\ ~Shadowed(n, j)) =>
               calls[j].args[q] = Under(n, NodeKeys(j)[q])

\* C2 (original): ... and that value is what every subsequent node obtains
\* when it resolves a key under n.name by nested lookup.
C2_Original ==
    /\ StoredRight
    /\ \A j \in 1..Len(calls) : \A q \in 1..Len(NodeKeys(j)) : \A n \in 1..(j - 1) :
           NodeName(n) = NodeKeys(j)[q][1] =>
               calls[j].args[q] = Under(n, NodeKeys(j)[q])

\* C2 witness: a node was invoked with a value of an earlier node's output,
\* and its own output stored.
C2_Witness ==
    /\ Len(stored) >= 2
    /\ \E j \in 2..Len(stored) : \E q \in 1..Len(NodeKeys(j)) :
           /\ NodeKeys(j)[q][1] = NodeName(j - 1)
           /\ calls[j].args[q] = heap[j - 1][NodeKeys(j)[q][2]]

\* C3: after a run that completes over a non-empty graph, the namespace's
\* 'out' is the very same mapping object as its entry for the last node.
C3_TerminalAliasing ==
    (status = "returned" /\ Len(Dag) > 0) =>
        /\ result = outputs
        /\ result["out"].tag = "ref"
        /\ result["out"].id = result[NodeName(Len(Dag))].id
        /\ result["out"] = module_outputs

\* C3 witness: a run over several nodes of different names returned.
C3_Witness ==
    /\ status = "returned"
    /\ Len(Dag) >= 2
    /\ NodeName(1) # NodeName(Len(Dag))

\* C4: each node is invoked by exactly one convention, processor > loss >
\* default: with both get_signal and get_controls the processor convention,
\* whatever else the module has; else with get_losses_dict the loss
\* convention; else (also with only one of the two) the plain call.
C4_CapabilityPrecedence ==
    /\ \A i, j \in 1..Len(calls) : calls[i].node = calls[j].node => i = j
    /\ \A j \in 1..Len(calls) :
           LET caps == layer.attrs[calls[j].key].caps
               proc == {"get_signal", "get_controls"} \subseteq caps
               loss == "get_losses_dict" \in caps
           IN /\ proc => calls[j].conv = "processor"
              /\ (~proc /\ loss) => calls[j].conv = "loss"
              /\ (~proc /\ ~loss) => calls[j].conv = "default"

\* C4 witness: a module with both capabilities was invoked as a processor and
\* a module with the loss capability alone through get_losses_dict.
C4_Witness ==
    /\ \E j \in 1..Len(calls) :
           /\ calls[j].conv = "processor"
           /\ "get_losses_dict" \in calls[j].module.caps
    /\ \E j \in 1..Len(calls) : calls[j].conv = "loss"

\* C5: at a node one of whose input keys does not resolve in the namespace
\* built so far the run ends with a lookup error; that node's module is not
\* invoked, no later node is resolved or invoked, nothing is returned.
C5_FatalOnMissingKey ==
    /\ (status = "running" /\ pos < Len(Dag) /\ KeyMissing(pos + 1)) =>
           \A raw \in RawResults(pos + 1) :
               LET st == NodeStep(pos + 1, raw, verbose)
               IN /\ st.status = "raised"
                  /\ st.err.at \in {"getattr", "lookup"}
                  /\ st.calls = calls
                  /\ st.stored = stored
                  /\ st.outputs = outputs
    /\ (status = "raised" /\ err.at = "lookup") =>
           /\ err.node = pos
           /\ KeyMissing(pos)
           /\ Len(calls) = pos - 1
           /\ resolved = 1..(pos - 1)
           /\ Len(stored) = pos - 1
           /\ result = NoValue

\* C5 witness: a run was ended by a key that did not resolve, at a node after
\* the first.
C5_Witness ==
    /\ status = "raised"
    /\ err.at = "lookup"
    /\ err.kind = "KeyError"
    /\ pos >= 2

\* C6 (the claim): at a node whose module name is not in module_names the run
\* ends with a lookup error before any input of that node is resolved and
\* before anything is invoked; the name resolves to no other object.
C6_UnknownModuleFatal ==
    \A k \in 1..pos :
        NodeName(k) \notin RegisteredNames =>
            /\ status = "raised"
            /\ err.node = k
            /\ err.at = "getattr"
            /\ k \notin resolved
            /\ \A j \in 1..Len(calls) : calls[j].node # k

\* C16: a raw result that is a dict is stored as it is, whatever the node's
\* output keys are (absent, or of any length), and never fails to be
\* labelled; a raw result that is not a dict is stored as its values under
\* the node's output keys in order, or under positional labels when the node
\* has only two elements, and only when there are as many labels as values.
C16_OutputLabelling ==
    /\ \A n \in 1..Len(stored) :
           LET raw == calls[n].raw
               values == IF raw.tag = "tuple" THEN raw.items ELSE <<raw>>
               labels == IF Len(Dag[n].items) > 2 THEN Dag[n].items[3].ks
                         ELSE SubSeq(PositionalKeys, 1, Len(values))
           IN IF raw.tag = "dict" THEN heap[n] = raw.d
              ELSE /\ Len(labels) = Len(values)
                   /\ DOMAIN heap[n] = {labels[i] : i \in 1..Len(labels)}
                   /\ \A i \in 1..Len(labels) : heap[n][labels[i]] = values[i]
    /\ (status = "raised" /\ err.at = "to_dict") =>
           /\ calls[Len(calls)].raw.tag # "dict"
           /\ Len(Dag[pos].items) > 2
           /\ Len(RawValues(calls[Len(calls)].raw)) # Len(NodeOutputKeys(pos))

\* C16 witness: a dict was stored as it is for a node with two output keys,
\* and a bare value under a positional label for a node of two elements.
C16_Witness ==
    /\ \E n \in 1..Len(stored) :
           /\ calls[n].raw.tag = "dict"
           /\ Len(NodeOutputKeys(n)) = 2
           /\ DOMAIN heap[n] = {"y"}
    /\ \E n \in 1..Len(stored) :
           /\ calls[n].raw.tag = "leaf"
           /\ Len(Dag[n].items) = 2
           /\ heap[n] = [l \in {PositionalKeys[1]} |-> calls[n].raw]

\* C18: a run over a graph with no nodes returns nothing: it passes the loop
\* without binding module_outputs and ends with an exception at the line
\* that binds 'out', its namespace still the inputs and their flat aliases.
C18_EmptyGraph ==
    (Len(Dag) = 0 /\ status # "idle") =>
        /\ status \in {"running", "raised"}
        /\ result = NoValue
        /\ pos = 0
        /\ module_outputs = Unbound
        /\ calls = <<>>
        /\ outputs = InitOutputs(entry.inputs)
        /\ "out" \notin DOMAIN outputs
        /\ status = "raised" =>
               err = [kind |-> "UnboundLocalError", node |-> 0, at |-> "alias"]

\* C18 witness: a run over the empty graph has ended with the exception.
C18_Witness ==
    /\ Len(Dag) = 0
    /\ status = "raised"
    /\ err.at = "alias"

\* C10 (the claim): with verbose=True and with verbose=False a node's pass
\* invokes the same module with the same arguments and ends the same way
\* (the same namespace, or the same error); only the diagnostics differ.
C10_VerbosityNoEffect ==
    (status = "running" /\ pos < Len(Dag)) =>
        \A raw \in RawResults(pos + 1) :
            [NodeStep(pos + 1, raw, TRUE) EXCEPT !.logs = 0]
                = [NodeStep(pos + 1, raw, FALSE) EXCEPT !.logs = 0]

(***************************************************************************)
(* Properties of the runs entered through call and run_dag.                *)
(***************************************************************************)
Finished == status \in {"returned", "raised"}

\* The scenario of a single node: one node, reading 'inputs/x', with the
\* output keys ['y'], its module a plain callable; the input mapping has the
\* key x alone; the module, if it was reached, returned a bare value.
SingleNodeScenario ==
    /\ Len(Dag) = 1
    /\ NodeKeys(1) = << <<"inputs", "x">> >>
    /\ Len(Dag[1].items) > 2
    /\ NodeOutputKeys(1) = <<"y">>
    /\ Convention(layer.attrs[NodeName(1)]) = "default"
    /\ DOMAIN entry.inputs = {"x"}
    /\ calls # <<>> => calls[1].raw.tag = "leaf"

\* The namespace {'inputs': {x: v}, x: v, m: {y: f(v)}, 'out': {y: f(v)}}.
SingleNodeNamespace ==
    /\ status = "returned"
    /\ DOMAIN result = {"inputs", "x", NodeName(1), "out"}
    /\ result["inputs"] = inputs
    /\ heap[inputs.id] = entry.inputs
    /\ result["x"] = entry.inputs["x"]
    /\ heap[result[NodeName(1)].id] = [y |-> calls[1].raw]
    /\ heap[result["out"].id] = [y |-> calls[1].raw]

\* C11 (the claim): in the scenario of a single node, a run entered through
\* call or run_dag with its defaults (no verbose argument) returns exactly
\* the namespace inputs -> {x: v}, x -> v, m -> {y: f(v)}, out -> {y: f(v)}.
C11_SingleNodeResult ==
    (Finished /\ SingleNodeScenario /\ entry.verbose = NotPassed) =>
        SingleNodeNamespace

\* C13 (the claim): a run that was not given verbose, through run_dag or
\* through call, emits no diagnostic record; records are emitted only in a
\* run that was given verbose=True.
C13_DefaultVerbosityOff ==
    /\ (status # "idle" /\ entry.verbose = NotPassed) => logs = 0
    /\ logs > 0 => entry.verbose = Passed(TRUE)

\* What the key 'inputs/k' resolves to in the namespace as it is.
RawInput(k) == nested_lookup(<<"inputs", k>>, outputs, heap)

\* C14 (the claim): for every input mapping and every graph, at every step
\* of a run and in the returned namespace, the namespace's entry 'inputs' is
\* the input mapping that was passed to the run, and every key 'inputs/k'
\* resolves to the raw input value of k.
C14_ReservedInputs ==
    status # "idle" =>
        /\ outputs["inputs"] = inputs
        /\ heap[inputs.id] = entry.inputs
        /\ \A k \in DOMAIN entry.inputs :
               RawInput(k) = [ok |-> TRUE, v |-> entry.inputs[k]]
        /\ status = "returned" => result["inputs"] = inputs

\* The last node before node j that has the name and whose output was
\* stored; 0 when there is none.
LastNamed(name, j) ==
    LET at == {n \in 1..Len(stored) : n < j /\ NodeName(n) = name}
    IN IF at = {} THEN 0 ELSE CHOOSE n \in at : \A m \in at : m <= n

\* C15 (the claim): the entry of a name is the output of the last node of
\* that name stored so far, in the namespace at every step and in the
\* returned one; a node that reads a key under a name is given the value in
\* the output of the last node of that name before it (the earlier of two
\* when it stands between them, the later when it stands after both); and
\* when a node has the name of an input key, that entry is the node's output
\* while 'inputs/<key>' still resolves to the raw input.
C15_SilentShadowing ==
    /\ \A n \in 1..Len(stored) :
           /\ outputs[NodeName(n)] = Ref(LastNamed(NodeName(n), Len(stored) + 1))
           /\ status = "returned" => result[NodeName(n)] = outputs[NodeName(n)]
    /\ \A j \in 1..Len(calls) : \A q \in 1..Len(NodeKeys(j)) :
           LET n == LastNamed(NodeKeys(j)[q][1], j)
           IN n > 0 => calls[j].args[q] = Under(n, NodeKeys(j)[q])
    /\ \A n \in 1..Len(stored) :
           NodeName(n) \in DOMAIN entry.inputs =>
               RawInput(NodeName(n)) = [ok |-> TRUE, v |-> entry.inputs[NodeName(n)]]

\* The namespace of the run as its own inputs and its own nodes' outputs give
\* it: 'out' and the names of the nodes stored so far hold those nodes'
\* outputs, the other keys of the input mapping their input values, and
\* 'inputs' (when nothing else has that name) the input mapping.
OwnKeys ==
    {"inputs"} \cup DOMAIN entry.inputs \cup {NodeName(n) : n \in 1..Len(stored)}
        \cup (IF status = "returned" THEN {"out"} ELSE {})
OwnValue(key) ==
    IF key = "out" /\ status = "returned" THEN Ref(Len(stored))
    ELSE IF LastNamed(key, Len(stored) + 1) > 0
    THEN Ref(LastNamed(key, Len(stored) + 1))
    ELSE IF key \in DOMAIN entry.inputs THEN entry.inputs[key]
    ELSE inputs

\* C17: in every run, the first on the layer or a later one, after runs that
\* returned or aborted, the namespace holds the run's own inputs and its own
\* nodes' outputs and nothing else, and the dict objects it refers to are
\* those of this run; the layer's attributes (the stored graph, the list of
\* module names, the modules) are as the constructor left them, and the
\* caller's input mapping holds what it held when it was passed.
C17_NoStateBetweenRuns ==
    /\ layer = DAGLayer_init(ctorArgs.dag, ctorArgs.kwargs)
    /\ status # "idle" =>
           /\ heap[inputs.id] = entry.inputs
           /\ DOMAIN heap = {inputs.id} \cup {n : n \in 1..Len(stored)}
           /\ DOMAIN outputs = OwnKeys
           /\ \A key \in OwnKeys : outputs[key] = OwnValue(key)
           /\ status = "returned" => result = outputs

\* C17 witness: a later run on the layer has ended, by returning or by an
\* exception, after a run that left keys in its namespace that this run's
\* namespace does not have; its input mapping has a key of a node's name.
C17_Witness ==
    /\ runs >= 2
    /\ Finished
    /\ entry.left \ DOMAIN outputs # {}
    /\ stored # <<>>
    /\ \E n \in 1..Len(stored) : NodeName(n) \in DOMAIN entry.inputs

====
